---------------------------- MODULE Spec2Model ----------------------------
(***************************************************************************)
(* A model of the ceremony shape generator: the hex algebra, the shape     *)
(* canonicalizer, the shape similarity measure, the deduplicating shape    *)
(* collection and the generation of the shapes (src/ceremony/geometry.py,  *)
(* src/ceremony/collection.py, src/ceremony/generate.py).                  *)
(*                                                                         *)
(* A Hex is a record [q, r, s]; a Shape is a record [hexes], the set of    *)
(* its hexes (a frozenset);    an exception is a record naming it.           *)
(***************************************************************************)
EXTENDS Integers, Sequences, FiniteSets, TLC

VARIABLES
    \* --- hex algebra harness
    tri,      \* the (q, r, s) triple last handed to the Hex constructor
    hex,      \* the Hex value held, or InvalidHexError
    base,     \* the last valid hex a chain of rotations started from
    steps,    \* the sum of the step counts of that chain
    hop,      \* the last hex operation applied
    \* --- canonicalizer harness
    s0,       \* the shape drawn at the start
    arg,      \* the shape currently held (the argument of the next call)
    out,      \* the result of the last normalize call
    nop,      \* the last shape operation applied
    nnorm,    \* how many normalize calls were made
    \* --- ShapeSet
    shapes,   \* ShapeSet.shapes: the list of the shapes added
    tree,     \* ShapeSet.tree: the root Node of the prefix tree
    added,    \* the argument of the last add call
    ret,      \* what the last add call returned, or the exception it raised
    accepted, \* the canonical forms of the shapes add returned True for
    prev,     \* ShapeSet.shapes as it was before the last add call
    nadds,    \* how many add calls were made
    \* --- shape similarity harness
    d1,       \* the first shape
    d2,       \* the second shape
    dshift,   \* the hex the first shape was translated by
    dbase,    \* the result for the first shape as drawn
    dres,     \* the result of the last call
    dop,      \* the last similarity operation applied
    \* --- shape rules harness
    gshape,   \* the shape drawn at the start
    gop,      \* the last rule applied to it
    gnum,     \* the number the last rule returned
    gexts,    \* the shapes extensions yielded, in the order it yielded them
    \* --- generate_all
    asize,    \* the size generate_all was called with
    ai,       \* i of the loop over range(size - 2)
    ashapes,  \* shapes
    atodo,    \* the shapes the loop over shapes has not reached yet
    aexts,    \* what extensions(shape) has still to yield for the shape reached
    anew,     \* new
    aop,      \* where generate_all is: "idle", "loop" or "returned"
    \* --- the selection of generate
    qsrc,     \* to_sources: triangle count -> shape -> the set of its sources
    qasym,    \* shape -> what asymmetry() gives for it
    qseen,    \* sources_seen
    qshapes,  \* shapes, the list that is returned
    qb,       \* the place in QUOTAS of the pair (numtri, quota) of the loop
    qrest,    \* the entries of shapes_sources the inner loop has not reached
    qcount,   \* count
    qorder,   \* the shapes the inner loop has reached, in order (history)
    qlog,     \* what was printed, one record a line
    qop,      \* where generate is: "idle", "bucket", "scan" or "returned"
    \* --- min_shape_distance, call by call
    morig,    \* s1 of the first call
    m1,       \* s1 of the call in progress
    m2,       \* s2
    mprev,    \* shape_distance(s1, s2) of the call before, -1 in the first
    mcalls,   \* the calls of min_shape_distance entered and not yet left
    mres,     \* the value returned, -1 before the return
    mop       \* "idle", "call", "returned" or "RecursionError"

hexVars == <<tri, hex, base, steps, hop>>
normVars == <<s0, arg, out, nop, nnorm>>
setVars == <<shapes, tree, added, ret, accepted, prev, nadds>>
distVars == <<d1, d2, dshift, dbase, dres, dop>>
ruleVars == <<gshape, gop, gnum, gexts>>
allVars == <<asize, ai, ashapes, atodo, aexts, anew, aop>>
selVars == <<qsrc, qasym, qseen, qshapes, qb, qrest, qcount, qorder, qlog, qop>>
descVars == <<morig, m1, m2, mprev, mcalls, mres, mop>>
genVars == <<ruleVars, allVars, selVars, descVars>>
vars == <<tri, hex, base, steps, hop, s0, arg, out, nop, nnorm,
          shapes, tree, added, ret, accepted, prev, nadds,
          d1, d2, dshift, dbase, dres, dop,
          gshape, gop, gnum, gexts,
          asize, ai, ashapes, atodo, aexts, anew, aop,
          qsrc, qasym, qseen, qshapes, qb, qrest, qcount, qorder, qlog, qop,
          morig, m1, m2, mprev, mcalls, mres, mop>>

-----------------------------------------------------------------------------
(* Bounds of the model *)

\* coordinates tried by the Hex constructor range over -TriBound..TriBound
TriBound == 2
\* hexes held by the hex harness stay within this ring
HexRing == 3
\* rotate is called with step counts in -MaxSteps..MaxSteps
MaxSteps == 7
\* the sum of the step counts of a chain of rotations stays within this
StepSum == 9
\* scalar multipliers range over -MaxMult..MaxMult
MaxMult == 2
\* the shapes drawn are made of the first NCells cells of the grid, counted
\* ring by ring from the origin and clockwise around each ring
NCells == 8
\* a shape drawn has at most MaxCells cells
MaxCells == 3
\* a shape is translated by a hex within this ring
MaxShift == 1
\* add is called at most MaxAdds times on a ShapeSet
MaxAdds == 3
\* shape_distance is called on shapes made of the first DistCells cells
DistCells == 7
\* the second shape of min_shape_distance is scaled up by 1..MaxScale
MaxScale == 2
\* the rules are applied to the shapes made of the first RuleCells cells
RuleCells == 8
\* extensions is called on shapes of at most ExtCells cells
ExtCells == 4
\* generate_all is called with sizes 2..MaxSize
MaxSize == 6
\* the shapes of at most BruteSize cells are also listed cell set by cell set
BruteSize == 4
\* a triangle count short of shapes has ShortItems of them
ShortItems == 3
\* a triangle count with shapes enough has Spare more than its quota
Spare == 1
\* min_shape_distance is also called on a shape and the same shape FarShift
\* cells away
FarShift == 500

-----------------------------------------------------------------------------
(* Exceptions *)

\* a raised exception is a record, as every value a variable may hold is
InvalidHexError == [raised |-> "InvalidHexError"]
AssertionError == [raised |-> "AssertionError"]
TypeError == [raised |-> "TypeError"]
None == [raised |-> "None"]

IsError(x) == x \in {InvalidHexError, AssertionError, TypeError}

-----------------------------------------------------------------------------
(* Hex *)

Abs(x) == IF x < 0 THEN -x ELSE x

Max2(a, b) == IF a >= b THEN a ELSE b

\* a constructor that skips the validation of __post_init__
HexUnchecked(q, r, s) == [q |-> q, r |-> r, s |-> s]

\* Hex(q, r, s): the dataclass constructor with its __post_init__ check
Hex(q, r, s) ==
    IF q + r + s # 0 THEN InvalidHexError ELSE [q |-> q, r |-> r, s |-> s]

HexAdd(h1, h2) == Hex(h1.q + h2.q, h1.r + h2.r, h1.s + h2.s)

HexNeg(h) == Hex(-h.q, -h.r, -h.s)

HexSub(h1, h2) == HexAdd(h1, HexNeg(h2))

HexMul(h, mult) == Hex(h.q * mult, h.r * mult, h.s * mult)

\* Python's // is the floor division, as \div is
HexFloorDiv(h, div) == Hex(h.q \div div, h.r \div div, h.s \div div)

\* tuple ordering on (q, r, s)
HexLess(h1, h2) ==
    \/ h1.q < h2.q
    \/ h1.q = h2.q /\ h1.r < h2.r
    \/ h1.q = h2.q /\ h1.r = h2.r /\ h1.s < h2.s

is_origin(h) == h.q = 0 /\ h.r = 0 /\ h.s = 0

Axes == {"Q", "R", "S"}

HexReflect(h, axis) ==
    IF axis = "Q" THEN Hex(h.q, h.s, h.r)
    ELSE IF axis = "R" THEN Hex(h.s, h.r, h.q)
    ELSE Hex(h.r, h.q, h.s)

\* the two while loops that bring steps into 0..5
RECURSIVE NormSteps(_)
NormSteps(n) ==
    IF n > 5 THEN NormSteps(n - 6)
    ELSE IF n < 0 THEN NormSteps(n + 6)
    ELSE n

\* the first while loop alone: steps above 5 are reduced, negative ones are not
RECURSIVE NormStepsDown(_)
NormStepsDown(n) == IF n > 5 THEN NormStepsDown(n - 6) ELSE n

\* rotate once the two while loops are done: steps 0 returns self, an odd
\* count negates the coordinates, then they are cycled
RotateSteps(h, k) ==
    LET sg == IF k % 2 = 1 THEN -1 ELSE 1
        q == sg * h.q
        r == sg * h.r
        s == sg * h.s
    IN  IF k = 0 THEN h
        ELSE IF k = 1 \/ k = 4 THEN Hex(r, s, q)
        ELSE IF k = 2 \/ k = 5 THEN Hex(s, q, r)
        ELSE Hex(q, r, s)

\* a rotate that does not bring negative step counts into 0..5
HexRotateNoNegative(h, n) == RotateSteps(h, NormStepsDown(n))

HexRotate(h, n) == RotateSteps(h, NormSteps(n))

HexRingOf(h) == Max2(Abs(h.q), Max2(Abs(h.r), Abs(h.s)))

OR == Hex(0, 0, 0)
UP == Hex(0, -1, 1)
UR == HexRotate(UP, 1)
DR == HexRotate(UR, 1)
DN == HexRotate(DR, 1)
DL == HexRotate(DN, 1)
UL == HexRotate(DL, 1)

DIRS == <<UP, UR, DR, DN, DL, UL>>

DirSet == {DIRS[i] : i \in 1..6}

distance(h1, h2) == HexRingOf(HexSub(h1, h2))

-----------------------------------------------------------------------------
(* Shape *)

Shape(hs) == [hexes |-> hs]

ShapeTranslate(sh, h) == Shape({HexAdd(n, h) : n \in sh.hexes})

ShapeRotate(sh, n) == Shape({HexRotate(h, n) : h \in sh.hexes})

ShapeReflect(sh, axis) == Shape({HexReflect(h, axis) : h \in sh.hexes})

\* a scale_up that leaves the shape as it is
ScaleUpNoop(sh, factor) == sh

scale_up(sh, factor) == Shape({HexMul(n, factor) : n \in sh.hexes})

\* a scale_down that leaves the shape as it is
ScaleDownNoop(sh, factor) == sh

\* the floor division of a hex raises when it is not exact
scale_down(sh, factor) ==
    LET hs == {HexFloorDiv(n, factor) : n \in sh.hexes}
    IN  IF InvalidHexError \in hs THEN InvalidHexError ELSE Shape(hs)

\* reduce(lambda a, b: a + b, hexes, Hex(0, 0, 0))
RECURSIVE SumHexes(_)
SumHexes(hs) ==
    IF hs = {} THEN Hex(0, 0, 0)
    ELSE LET h == CHOOSE x \in hs : TRUE
         IN  HexAdd(SumHexes(hs \ {h}), h)

ShapeSum(sh) == SumHexes(sh.hexes)

mean(sh) == HexFloorDiv(ShapeSum(sh), Cardinality(sh.hexes))

ValueError == [raised |-> "ValueError"]

\* ring_index once the sector, its start direction and its key are chosen
SectorIndex(h, sector0, startd0, key) ==
    LET ring == HexRingOf(h)
        sector == IF key > 0 THEN sector0 + 3 ELSE sector0
        startd == IF key > 0 THEN HexRotate(startd0, 3) ELSE startd0
        start == HexMul(startd, ring)
        dist_from_start == HexRingOf(HexSub(h, start))
    IN  (sector * ring) + dist_from_start

ring_index(h) ==
    IF is_origin(h) THEN 0
    ELSE IF Abs(h.r) > Abs(h.q) /\ Abs(h.r) >= Abs(h.s)
         THEN SectorIndex(h, 0, UP, h.r)
    ELSE IF Abs(h.q) > Abs(h.s) /\ Abs(h.q) >= Abs(h.r)
         THEN SectorIndex(h, 1, UR, -h.q)
    ELSE IF Abs(h.s) > Abs(h.r) /\ Abs(h.s) >= Abs(h.q)
         THEN SectorIndex(h, 2, DR, h.s)
    ELSE ValueError   \* "not in any sector"

\* A ring sum is an unbounded integer (2 ** ring_index grows past any
\* machine word): it is held as the set of the positions of its 1 bits.
RECURSIVE BigAddBit(_, _)
BigAddBit(n, i) ==
    IF i \in n THEN BigAddBit(n \ {i}, i + 1) ELSE n \cup {i}

SetMax(S) == CHOOSE x \in S : \A y \in S : y <= x

BigLess(a, b) ==
    /\ a # b
    /\ SetMax((a \ b) \cup (b \ a)) \in b

RECURSIVE BigSum(_)
BigSum(hs) ==
    IF hs = {} THEN {}
    ELSE LET h == CHOOSE x \in hs : TRUE
         IN  BigAddBit(BigSum(hs \ {h}), ring_index(h))

ring_sum(sh, ring) == BigSum({h \in sh.hexes : HexRingOf(h) = ring})

\* a ring loop that keeps the first rotation, whatever the ring sums are
RingLoopFirst(rotations, ring, outer_ring) == rotations[1]

\* sums = [(r, r.ring_sum(ring)) for r in rotations]
RingSums(rotations, ring) ==
    [i \in 1..Len(rotations) |->
        <<rotations[i], ring_sum(rotations[i], ring)>>]

\* min(s[1] for s in sums)
MinSum(sums) ==
    CHOOSE m \in {sums[i][2] : i \in 1..Len(sums)} :
        \A i \in 1..Len(sums) : ~BigLess(sums[i][2], m)

\* a filter that keeps every rotation, whatever its sum
KeptEvery(sums) == [i \in 1..Len(sums) |-> sums[i][1]]

\* [s[0] for s in sums if s[1] == min_sum]
KeptRotations(sums) ==
    LET kept == SelectSeq(sums, LAMBDA p : p[2] = MinSum(sums))
    IN  [i \in 1..Len(kept) |-> kept[i][1]]

\* the while loop of normalize, from `ring` on; its else branch runs when
\* the rings are exhausted with more than one rotation left.  RingBreak is
\* the end of one pass: break on a single rotation, else the next ring.
RECURSIVE RingLoop(_, _, _)
RECURSIVE RingBreak(_, _, _)
RingLoop(rotations, ring, outer_ring) ==
    IF ring > outer_ring
    THEN IF \A i \in 2..Len(rotations) : rotations[i] = rotations[1]
         THEN rotations[1]
         ELSE AssertionError
    ELSE RingBreak(KeptRotations(RingSums(rotations, ring)), ring, outer_ring)

RingBreak(rotations, ring, outer_ring) ==
    IF Len(rotations) = 1 THEN rotations[1]
    ELSE RingLoop(rotations, ring + 1, outer_ring)

\* sorted(hexes)[-1]: the last hex of the tuple ordering, not the first
HighestHex(hs) == CHOOSE h \in hs : \A g \in hs : g = h \/ HexLess(g, h)

\* sorted(hexes)[0]
LowestHex(hs) == CHOOSE h \in hs : \A g \in hs : g = h \/ HexLess(h, g)

\* s.translate(-h).scale_down(scale), h the lowest hex of the rotation kept
NormalizeOrigin(r, scale) ==
    IF r = AssertionError THEN AssertionError
    ELSE scale_down(ShapeTranslate(r, HexNeg(LowestHex(r.hexes))), scale)

\* the six rotations of the centred shape s, reduced ring by ring
NormalizeRotation(s, scale) ==
    NormalizeOrigin(
        RingLoop([i \in 1..6 |-> ShapeRotate(s, i - 1)], 1,
                 SetMax({HexRingOf(h) : h \in s.hexes})),
        scale)

\* s.translate(-s.mean()) of the scaled shape
NormalizeCentred(up, scale) ==
    IF mean(up) = InvalidHexError THEN InvalidHexError
    ELSE NormalizeRotation(ShapeTranslate(up, HexNeg(mean(up))), scale)

normalize(sh) ==
    IF sh.hexes = {} THEN sh
    ELSE NormalizeCentred(scale_up(sh, Cardinality(sh.hexes)),
                          Cardinality(sh.hexes))

-----------------------------------------------------------------------------
(* Shape similarity *)

SetMin(S) == CHOOSE x \in S : \A y \in S : x <= y

\* a cost that is the distance itself, not its square
CostLinear(h1, h2) == distance(h1, h2)

\* costs[i, j] = d ** 2
Cost(h1, h2) == distance(h1, h2) * distance(h1, h2)

\* scipy's linear_sum_assignment on the cost matrix, summed: the least
\* total cost of pairing every row with a column of its own; rows are
\* paired one after the other with each column still free
RECURSIVE linear_sum_assignment(_, _)
linear_sum_assignment(rows, cols) ==
    IF rows = {} THEN 0
    ELSE LET h1 == CHOOSE x \in rows : TRUE
         IN  SetMin({Cost(h1, h2)
                        + linear_sum_assignment(rows \ {h1}, cols \ {h2}) :
                     h2 \in cols})

shape_distance(s1, s2) ==
    IF Cardinality(s1.hexes) # Cardinality(s2.hexes) THEN AssertionError
    ELSE linear_sum_assignment(s1.hexes, s2.hexes)

\* the for loop of min_shape_distance from DIRS[i] on: <<min_dist, min_trans>>.
\* DirCompare is the body of the loop once trans_dist is computed.
RECURSIVE DirLoop(_, _, _, _, _)
RECURSIVE DirCompare(_, _, _, _, _, _)
DirLoop(i, min_dist, min_trans, s1, s2) ==
    IF i > Len(DIRS) THEN <<min_dist, min_trans>>
    ELSE DirCompare(i, shape_distance(ShapeTranslate(s1, DIRS[i]), s2),
                    min_dist, min_trans, s1, s2)

DirCompare(i, trans_dist, min_dist, min_trans, s1, s2) ==
    IF trans_dist < min_dist
    THEN DirLoop(i + 1, trans_dist, ShapeTranslate(s1, DIRS[i]), s1, s2)
    ELSE DirLoop(i + 1, min_dist, min_trans, s1, s2)

\* `best` is <<min_dist, min_trans>> after the loop: recurse from min_trans
\* when it moved, else return min_dist
RECURSIVE min_shape_distance(_, _)
RECURSIVE Descend(_, _, _)
min_shape_distance(s1, s2) ==
    \* the assertion of shape_distance, raised by the first call of it
    IF Cardinality(s1.hexes) # Cardinality(s2.hexes) THEN AssertionError
    ELSE Descend(DirLoop(1, shape_distance(s1, s2), s1, s1, s2), s1, s2)

Descend(best, s1, s2) ==
    IF best[2] # s1 THEN min_shape_distance(best[2], s2) ELSE best[1]

mirror_asymmetry(sh) ==
    SetMin({min_shape_distance(norm, ShapeReflect(norm, axis)) :
               norm \in {normalize(sh)}, axis \in Axes})

\* the rotations 0..4 instead of 1..5
RotationalAsymmetryFromZero(sh) ==
    SetMin({min_shape_distance(norm, ShapeRotate(norm, i)) :
               norm \in {normalize(sh)}, i \in 0..4})

rotational_asymmetry(sh) ==
    SetMin({min_shape_distance(norm, ShapeRotate(norm, i + 1)) :
               norm \in {normalize(sh)}, i \in 0..4})

asymmetry(sh) == SetMin({mirror_asymmetry(sh), rotational_asymmetry(sh)})

-----------------------------------------------------------------------------
(* The hex harness: a Hex is constructed from an arbitrary triple and the  *)
(* operations of the class are applied to it.                              *)

Coords == (-TriBound)..TriBound

HexOk(h) == h # InvalidHexError /\ HexRingOf(h) <= HexRing

InitHexIdle ==
    /\ tri = <<0, 0, 0>>
    /\ hex = OR
    /\ base = OR
    /\ steps = 0
    /\ hop = "idle"

InitNormIdle ==
    /\ s0 = [hexes |-> {}]
    /\ arg = [hexes |-> {}]
    /\ out = None
    /\ nop = "idle"
    /\ nnorm = 0

\* Node(value)
Node(value) == [value |-> value, children |-> <<>>, terminal |-> FALSE]

\* ShapeSet(): no shape, the tree rooted at the origin, no call made yet
InitSet ==
    /\ shapes = <<>>
    /\ tree = Node(OR)
    /\ added = Shape({})
    /\ ret = "None"
    /\ accepted = <<>>
    /\ prev = <<>>
    /\ nadds = 0

InitDistIdle ==
    /\ d1 = Shape({})
    /\ d2 = Shape({})
    /\ dshift = OR
    /\ dbase = -1
    /\ dres = -1
    /\ dop = "idle"

InitRulesIdle ==
    /\ gshape = Shape({})
    /\ gop = "idle"
    /\ gnum = -1
    /\ gexts = <<>>

InitAllIdle ==
    /\ asize = 0
    /\ ai = 0
    /\ ashapes = {}
    /\ atodo = {}
    /\ aexts = <<>>
    /\ anew = {}
    /\ aop = "idle"

InitSelIdle ==
    /\ qsrc = <<>>
    /\ qasym = <<>>
    /\ qseen = {}
    /\ qshapes = <<>>
    /\ qb = 0
    /\ qrest = {}
    /\ qcount = 0
    /\ qorder = <<>>
    /\ qlog = <<>>
    /\ qop = "idle"

InitDescIdle ==
    /\ morig = Shape({})
    /\ m1 = Shape({})
    /\ m2 = Shape({})
    /\ mprev = -1
    /\ mcalls = 0
    /\ mres = -1
    /\ mop = "idle"

InitGenIdle ==
    /\ InitRulesIdle
    /\ InitAllIdle
    /\ InitSelIdle
    /\ InitDescIdle

InitHex ==
    /\ tri \in Coords \X Coords \X Coords
    /\ hex = Hex(tri[1], tri[2], tri[3])
    /\ base = IF hex = InvalidHexError THEN OR ELSE hex
    /\ steps = 0
    /\ hop = "new"
    /\ InitNormIdle
    /\ InitSet
    /\ InitGenIdle
    /\ InitDistIdle

\* the result h of an operation replaces the hex held
HexBecomes(h, op) ==
    /\ h = InvalidHexError \/ HexOk(h)
    /\ hex' = h
    /\ base' = IF h = InvalidHexError THEN base ELSE h
    /\ tri' = IF h = InvalidHexError THEN tri ELSE <<h.q, h.r, h.s>>
    /\ steps' = 0
    /\ hop' = op
    /\ UNCHANGED <<normVars, setVars, genVars, distVars>>

HexConstruct ==
    \E q \in Coords, r \in Coords, s \in Coords :
        /\ hex' = Hex(q, r, s)
        /\ base' = IF hex' = InvalidHexError THEN base ELSE hex'
        /\ tri' = <<q, r, s>>
        /\ steps' = 0
        /\ hop' = "new"
        /\ UNCHANGED <<normVars, setVars, genVars, distVars>>

HexAddStep ==
    \E d \in DirSet :
        /\ hex # InvalidHexError
        /\ HexBecomes(HexAdd(hex, d), "add")

HexSubStep ==
    \E d \in DirSet :
        /\ hex # InvalidHexError
        /\ HexBecomes(HexSub(hex, d), "sub")

HexNegStep ==
    /\ hex # InvalidHexError
    /\ HexBecomes(HexNeg(hex), "neg")

HexMulStep ==
    \E m \in (-MaxMult)..MaxMult :
        /\ hex # InvalidHexError
        /\ HexBecomes(HexMul(hex, m), "mul")

HexReflectStep ==
    \E a \in Axes :
        /\ hex # InvalidHexError
        /\ HexBecomes(HexReflect(hex, a), "reflect")

HexRotateStep ==
    \E k \in (-MaxSteps)..MaxSteps :
        /\ hex # InvalidHexError
        /\ steps + k \in (-StepSum)..StepSum
        /\ hex' = HexRotate(hex, k)
        /\ tri' = <<hex'.q, hex'.r, hex'.s>>
        /\ steps' = steps + k
        /\ hop' = "rotate"
        /\ UNCHANGED <<base, normVars, setVars, genVars, distVars>>

NextHex ==
    \/ HexConstruct
    \/ HexAddStep
    \/ HexSubStep
    \/ HexNegStep
    \/ HexMulStep
    \/ HexReflectStep
    \/ HexRotateStep

SpecHex == InitHex /\ [][NextHex]_vars

-----------------------------------------------------------------------------
(* The canonicalizer harness: a shape is drawn, rotated and translated,    *)
(* normalized, and the result is normalized again.                         *)

\* the position of a cell when the grid is counted ring by ring
SpiralPos(h) ==
    IF is_origin(h) THEN 0
    ELSE 3 * HexRingOf(h) * (HexRingOf(h) - 1) + 1 + ring_index(h)

\* the first n cells of the grid
CellsUpTo(n) ==
    {h \in {HexUnchecked(q, r, -q - r) : q \in (-n)..n, r \in (-n)..n} :
        SpiralPos(h) < n}

\* the shapes of at most MaxCells cells made of the given cells
ShapesOf(cells) ==
    {Shape(hs) : hs \in {c \in SUBSET cells : Cardinality(c) <= MaxCells}}

Cells == CellsUpTo(NCells)

Shapes == ShapesOf(Cells)

Shifts ==
    {h \in {HexUnchecked(q, r, -q - r) : q \in (-MaxShift)..MaxShift,
                                         r \in (-MaxShift)..MaxShift} :
        HexRingOf(h) <= MaxShift}

InitNorm ==
    /\ s0 \in Shapes
    /\ arg = s0
    /\ out = None
    /\ nop = "new"
    /\ nnorm = 0
    /\ InitHexIdle
    /\ InitSet
    /\ InitGenIdle
    /\ InitDistIdle

\* arg = s0.rotate(k)
RotateShape ==
    \E k \in 0..5 :
        /\ nop = "new"
        /\ arg' = ShapeRotate(arg, k)
        /\ nop' = "rotate"
        /\ UNCHANGED <<s0, out, nnorm, hexVars, setVars, genVars, distVars>>

\* arg = arg.translate(t)
TranslateShape ==
    \E t \in Shifts :
        /\ nop \in {"new", "rotate"}
        /\ arg' = ShapeTranslate(arg, t)
        /\ nop' = "translate"
        /\ UNCHANGED <<s0, out, nnorm, hexVars, setVars, genVars, distVars>>

\* out = arg.normalize()
NormalizeShape ==
    /\ nop \in {"new", "rotate", "translate", "again"}
    /\ out' = normalize(arg)
    /\ nnorm' = nnorm + 1
    /\ nop' = "normalize"
    /\ UNCHANGED <<s0, arg, hexVars, setVars, genVars, distVars>>

\* the result becomes the argument of a second normalize call
NormalizeAgain ==
    /\ nop = "normalize"
    /\ nnorm = 1
    /\ ~IsError(out)
    /\ arg' = out
    /\ out' = None
    /\ nop' = "again"
    /\ UNCHANGED <<s0, nnorm, hexVars, setVars, genVars, distVars>>

NextNorm ==
    \/ RotateShape
    \/ TranslateShape
    \/ NormalizeShape
    \/ NormalizeAgain

SpecNorm == InitNorm /\ [][NextNorm]_vars

\* sh2 = sh1.rotate(k).translate(t) for some k in 0..5 and some hex t
IsRotTrans(sh1, sh2) ==
    \E k \in 0..5 :
        LET r == ShapeRotate(sh1, k)
        IN  \/ r = sh2
            \/ \E a \in r.hexes, b \in sh2.hexes :
                   ShapeTranslate(r, HexSub(b, a)) = sh2

-----------------------------------------------------------------------------
(* ShapeSet: add is called with shapes drawn from Shapes.                  *)

\* hexes[i]: the hexes of a Shape are a frozenset, which has no subscript
Subscript(hexes, i) == TypeError

\* ShapeSet.add: [ret, shapes, tree] after the call.  The normalized shape
\* s holds a frozenset, so that s.hexes[0] raises TypeError and the walk of
\* the tree that follows is never entered.
add(self, shape) ==
    IF shape.hexes = {}
    THEN [ret |-> "False", shapes |-> self.shapes, tree |-> self.tree]
    ELSE
        LET s == normalize(shape)
            node == self.tree
            first == Subscript(s.hexes, 0)   \* assert s.hexes[0] == node.value
        IN  [ret |-> first.raised, shapes |-> self.shapes, tree |-> self.tree]

\* list(iter(self)): __iter__ iterates self.shapes
Iterate(self) == self.shapes

AddShape ==
    \E shape \in Shapes :
        /\ nadds < MaxAdds
        /\ \E r \in {add([shapes |-> shapes, tree |-> tree], shape)} :
               /\ ret' = r.ret
               /\ shapes' = r.shapes
               /\ tree' = r.tree
               /\ accepted' = IF r.ret = "True"
                              THEN Append(accepted, normalize(shape))
                              ELSE accepted
        /\ added' = shape
        /\ prev' = shapes
        /\ nadds' = nadds + 1
        /\ UNCHANGED <<hexVars, normVars, distVars, genVars>>

Init ==
    /\ InitSet
    /\ InitGenIdle
    /\ InitHexIdle
    /\ InitNormIdle
    /\ InitDistIdle

Next == AddShape

Spec == Init /\ [][Next]_vars

SeqRange(q) == {q[i] : i \in 1..Len(q)}

IsPrefix(p, q) == Len(p) <= Len(q) /\ \A i \in 1..Len(p) : p[i] = q[i]

-----------------------------------------------------------------------------
(* The similarity harness.                                                 *)

\* shape_distance on two shapes of the same size
InitDist ==
    /\ d1 \in ShapesOf(CellsUpTo(DistCells))
    /\ d2 \in ShapesOf(CellsUpTo(DistCells))
    /\ Cardinality(d1.hexes) = Cardinality(d2.hexes)
    /\ dshift = OR
    /\ dbase = -1
    /\ dres = -1
    /\ dop = "new"
    /\ InitHexIdle
    /\ InitNormIdle
    /\ InitSet
    /\ InitGenIdle

ShapeDistanceCall ==
    /\ dop = "new"
    /\ dres' = shape_distance(d1, d2)
    /\ dop' = "shape_distance"
    /\ UNCHANGED <<d1, d2, dshift, dbase, hexVars, normVars, setVars, genVars>>

\* the two shapes change places
SwapShapes ==
    /\ dop = "shape_distance"
    /\ d1' = d2
    /\ d2' = d1
    /\ dbase' = dres
    /\ dres' = shape_distance(d2, d1)
    /\ dop' = "swapped"
    /\ UNCHANGED <<dshift, hexVars, normVars, setVars, genVars>>

NextDist ==
    \/ ShapeDistanceCall
    \/ SwapShapes

SpecDist == InitDist /\ [][NextDist]_vars

\* min_shape_distance on a shape and a scaled shape of the same size that
\* holds the origin (as every normalized shape does), then on a unit
\* translation of the first shape
InitMinDist ==
    /\ d1 \in ShapesOf(CellsUpTo(DistCells))
    /\ d2 \in {scale_up(x, k) :
                  x \in {y \in Shapes : y.hexes = {} \/ OR \in y.hexes},
                  k \in 1..MaxScale}
    /\ Cardinality(d1.hexes) = Cardinality(d2.hexes)
    /\ dshift = OR
    /\ dbase = -1
    /\ dres = -1
    /\ dop = "new"
    /\ InitHexIdle
    /\ InitNormIdle
    /\ InitSet
    /\ InitGenIdle

MinShapeDistanceCall ==
    /\ dop = "new"
    /\ dres' = min_shape_distance(d1, d2)
    /\ dbase' = dres'
    /\ dop' = "min"
    /\ UNCHANGED <<d1, d2, dshift, hexVars, normVars, setVars, genVars>>

MinShapeDistanceTranslated ==
    \E t \in DirSet :
        /\ dop = "min"
        /\ dshift' = t
        /\ d1' = ShapeTranslate(d1, t)
        /\ dres' = min_shape_distance(d1', d2)
        /\ dop' = "min_translated"
        /\ UNCHANGED <<d2, dbase, hexVars, normVars, setVars, genVars>>

NextMinDist ==
    \/ MinShapeDistanceCall
    \/ MinShapeDistanceTranslated

SpecMinDist == InitMinDist /\ [][NextMinDist]_vars

\* asymmetry on one shape
InitAsym ==
    /\ d1 \in Shapes
    /\ d2 = Shape({})
    /\ dshift = OR
    /\ dbase = -1
    /\ dres = -1
    /\ dop = "new"
    /\ InitHexIdle
    /\ InitNormIdle
    /\ InitSet
    /\ InitGenIdle

AsymmetryCall ==
    /\ dop = "new"
    /\ dres' = asymmetry(d1)
    /\ dop' = "asymmetry"
    /\ UNCHANGED <<d1, d2, dshift, dbase, hexVars, normVars, setVars, genVars>>

NextAsym == AsymmetryCall

SpecAsym == InitAsym /\ [][NextAsym]_vars

\* sh2 is a translate of sh1
IsTranslate(sh1, sh2) ==
    \/ sh1 = sh2
    \/ \E a \in sh1.hexes, b \in sh2.hexes :
           ShapeTranslate(sh1, HexSub(b, a)) = sh2

\* some translate of normalize(sh) is one of its 5 rotations or 3 reflections
Symmetric(sh) ==
    LET norm == normalize(sh)
    IN  \/ \E k \in 1..5 : IsTranslate(norm, ShapeRotate(norm, k))
        \/ \E a \in Axes : IsTranslate(norm, ShapeReflect(norm, a))

\* the sum of f[h] over the hexes h of hs
RECURSIVE SumOver(_, _)
SumOver(f, hs) ==
    IF hs = {} THEN 0
    ELSE LET h == CHOOSE x \in hs : TRUE
         IN  f[h] + SumOver(f, hs \ {h})

\* the bijections from the cells of sh1 to the cells of sh2
Bijections(sh1, sh2) ==
    {f \in [sh1.hexes -> sh2.hexes] :
        \A a, b \in sh1.hexes : f[a] = f[b] => a = b}

\* the total of the squared hex distances between h and f[h]
PairingCost(f, sh1) ==
    SumOver([h \in sh1.hexes |->
                HexRingOf(HexSub(h, f[h])) * HexRingOf(HexSub(h, f[h]))],
            sh1.hexes)

-----------------------------------------------------------------------------
\* C6: constructing Hex(q, r, s) succeeds iff q + r + s = 0 and raises
\* InvalidHexError otherwise; every Hex that exists, the results of add,
\* subtract, negate, scalar multiply, rotate and reflect on valid hexes
\* included, satisfies q + r + s = 0 (and these operations never raise).
C6_CubeInvariant ==
    /\ hop = "new" =>
          /\ (hex = InvalidHexError) <=> (tri[1] + tri[2] + tri[3] # 0)
          /\ hex # InvalidHexError =>
                hex = [q |-> tri[1], r |-> tri[2], s |-> tri[3]]
    /\ hop # "new" => hex # InvalidHexError
    /\ hex # InvalidHexError => hex.q + hex.r + hex.s = 0

\* operations have produced a hex away from the origin, and the
\* construction that followed was refused
C6_Witness ==
    /\ hop = "new"
    /\ hex = InvalidHexError
    /\ tri[1] + tri[2] + tri[3] # 0
    /\ HexRingOf(base) > TriBound

\* C7: rotation is a cyclic group action of order 6: h.rotate(6) = h and
\* h.rotate(a).rotate(b)... = h.rotate(a + b + ...), for step counts that
\* are positive, zero or negative.
C7_RotationGroup ==
    hex # InvalidHexError =>
        /\ hex = HexRotate(base, steps)
        /\ hex = HexRotate(base, NormSteps(steps))
        /\ HexRotate(hex, 6) = hex
        /\ HexRotate(hex, -6) = hex

\* a chain of at least two rotations, one of them backwards or beyond 5,
\* has moved a hex that is not the origin
C7_Witness ==
    /\ hop = "rotate"
    /\ hex # InvalidHexError
    /\ ~is_origin(base)
    /\ steps < -6
    /\ hex # base

\* C1: for every non-empty shape s, every rotation count k in 0..5 and every
\* translation t, normalize(s.rotate(k).translate(t)) = normalize(s).
C1_NormalizeInvariant ==
    (nop = "normalize" /\ nnorm = 1 /\ s0.hexes # {}) => out = normalize(s0)

\* a shape of several cells that was rotated and translated to another
\* shape has been normalized
C1_Witness ==
    /\ nop = "normalize"
    /\ nnorm = 1
    /\ Cardinality(s0.hexes) = MaxCells
    /\ arg # s0
    /\ \A t \in Shifts : arg # ShapeTranslate(s0, t)
    /\ \A k \in 0..5 : arg # ShapeRotate(s0, k)

\* C2: normalize(s) is a member of the class of s: it has as many cells as s
\* and is s.rotate(k).translate(t) for some k and t; so a shape b has the
\* canonical form of s only if b is a translated rotation of s, and the
\* mirror image of s has it only if it is a translated rotation of s.
C2_NormalizeInClass ==
    nop = "normalize" =>
        /\ ~IsError(out)
        /\ Cardinality(out.hexes) = Cardinality(arg.hexes)
        /\ IsRotTrans(arg, out)
        /\ \A a \in Axes :
              normalize(ShapeReflect(arg, a)) = out
                  => IsRotTrans(arg, ShapeReflect(arg, a))
        /\ arg = s0 =>
              \A b \in Shapes : normalize(b) = out => IsRotTrans(arg, b)

\* a shape that differs from its canonical form, and whose mirror image has
\* another canonical form, has been normalized
C2_Witness ==
    /\ nop = "normalize"
    /\ ~IsError(out)
    /\ Cardinality(arg.hexes) = MaxCells
    /\ out # arg
    /\ \A a \in Axes : normalize(ShapeReflect(arg, a)) # out

\* C3: normalize is idempotent, the empty shape included:
\* normalize(normalize(s)) = normalize(s).
C3_NormalizeIdempotent ==
    (nop = "normalize" /\ nnorm = 2) => out = arg

\* the canonical form of a shape of several cells, which was not canonical
\* itself, has been normalized again
C3_Witness ==
    /\ nop = "normalize"
    /\ nnorm = 2
    /\ Cardinality(s0.hexes) = MaxCells
    /\ arg # s0

\* the empty shape has been normalized twice
C3_WitnessEmpty ==
    /\ nop = "normalize"
    /\ nnorm = 2
    /\ s0.hexes = {}

\* C4: add(shape) returns true if and only if shape is non-empty and no
\* earlier call returned true for a shape equal to it up to rotation and
\* translation.
C4_AddIffNew ==
    nadds > 0 =>
        ((ret = "True") <=>
            (added.hexes # {} /\ normalize(added) \notin SeqRange(prev)))

C9_TranslationInvariant ==
    dop = "min_translated" => dres = dbase

\* C10: for every non-empty shape s, asymmetry(s) = 0 if and only if some
\* translate of normalize(s) is one of its 5 non-identity rotations or one
\* of its 3 axis reflections.
C10_AsymmetryZeroIffSymmetric ==
    (dop = "asymmetry" /\ d1.hexes # {}) => ((dres = 0) <=> Symmetric(d1))

\* the asymmetry of a symmetric shape of several cells, which no rotation
\* or reflection about the origin maps to itself, has been computed
C10_Witness ==
    /\ dop = "asymmetry"
    /\ Cardinality(d1.hexes) = MaxCells
    /\ Symmetric(d1)
    /\ dres = 0
    /\ \A k \in 1..5 : ShapeRotate(normalize(d1), k) # normalize(d1)
    /\ \A a \in Axes : ShapeReflect(normalize(d1), a) # normalize(d1)

\* the asymmetry of a shape without any such symmetry has been computed
C10_WitnessAsymmetric ==
    /\ dop = "asymmetry"
    /\ d1.hexes # {}
    /\ ~Symmetric(d1)
    /\ dres > 0

\* two cells, one next to the other
TwoAdjacent(sh) ==
    /\ Cardinality(sh.hexes) = 2
    /\ \A a, b \in sh.hexes : a # b => distance(a, b) = 1

\* C11 as the specification states it: normalizing a shape of two adjacent
\* cells, {(0,0,0), (0,1,-1)} among them, yields {(0,0,0), (1,0,-1)}.
C11_TwoCellsDownRight ==
    (nop = "normalize" /\ TwoAdjacent(arg)) =>
        out = Shape({Hex(0, 0, 0), Hex(1, 0, -1)})

\* C11: normalizing a shape of two adjacent cells, in any rotation and
\* translation, yields {(0,0,0), (0,1,-1)}; so {(0,0,0), (0,1,-1)} is its
\* own canonical form and the canonical form of every such shape.
C11_TwoCellsDown ==
    (nop = "normalize" /\ TwoAdjacent(arg)) =>
        out = Shape({Hex(0, 0, 0), Hex(0, 1, -1)})

\* the shape {(0,0,0), (0,1,-1)} itself has been normalized
C11_Witness ==
    /\ nop = "normalize"
    /\ arg = Shape({Hex(0, 0, 0), Hex(0, 1, -1)})
    /\ TwoAdjacent(arg)
    /\ out = arg

\* a shape of two adjacent cells away from the origin, in another
\* orientation, has been normalized
C11_WitnessMoved ==
    /\ nop = "normalize"
    /\ TwoAdjacent(arg)
    /\ OR \notin arg.hexes
    /\ ~IsTranslate(arg, Shape({Hex(0, 0, 0), Hex(0, 1, -1)}))

-----------------------------------------------------------------------------
(* The rules of the generation (src/ceremony/generate.py)                  *)

IndexError == [raised |-> "IndexError"]

\* Shape.of(*hs): the normalized shape of the given hexes
ShapeOf(hs) == normalize(Shape(hs))

\* a set of hexes is iterated in some order: the (q, r, s) order is taken
RECURSIVE SortedHexes(_)
SortedHexes(hs) ==
    IF hs = {} THEN <<>>
    ELSE <<LowestHex(hs)>> \o SortedHexes(hs \ {LowestHex(hs)})

\* the end of one pass of the loops of extensions, for the candidate shape
\* `new`: it is yielded unless it is in `seen`.  ExtLoop is the two loops
\* from hexes[i] and DIRS[j] on; `yielded` is what was yielded so far.
RECURSIVE ExtLoop(_, _, _, _, _, _)
RECURSIVE ExtYield(_, _, _, _, _, _, _)
RECURSIVE ExtYieldAll(_, _, _, _, _, _, _)

\* a pass that yields the candidate shape whether it was seen or not
ExtYieldAll(base_, hexes, i, j, seen, yielded, new) ==
    ExtLoop(base_, hexes, i, j + 1, seen \cup {new}, Append(yielded, new))

ExtYield(base_, hexes, i, j, seen, yielded, new) ==
    IF new \notin seen
    THEN ExtLoop(base_, hexes, i, j + 1, seen \cup {new}, Append(yielded, new))
    ELSE ExtLoop(base_, hexes, i, j + 1, seen, yielded)

ExtLoop(base_, hexes, i, j, seen, yielded) ==
    IF i > Len(hexes) THEN yielded
    ELSE IF j > Len(DIRS) THEN ExtLoop(base_, hexes, i + 1, 1, seen, yielded)
    ELSE IF HexAdd(hexes[i], DIRS[j]) \in base_.hexes
         THEN ExtLoop(base_, hexes, i, j + 1, seen, yielded)   \* continue
    ELSE ExtYield(base_, hexes, i, j, seen, yielded,
                  ShapeOf(base_.hexes \cup {HexAdd(hexes[i], DIRS[j])}))

\* extensions(base): the sequence of the shapes yielded
extensions(base_) == ExtLoop(base_, SortedHexes(base_.hexes), 1, 1, {}, <<>>)

\* a count that looks at the up-right neighbour only
NumTrianglesUpRight(shape) ==
    Cardinality({h \in shape.hexes :
                    /\ HexAdd(h, UP) \in shape.hexes
                    /\ HexAdd(h, UR) \in shape.hexes})

\* ret is raised once for every h with h + UP and h + UR in the shape and
\* once for every h with h + UP and h + UL in the shape
num_triangles(shape) ==
    Cardinality({h \in shape.hexes :
                    /\ HexAdd(h, UP) \in shape.hexes
                    /\ HexAdd(h, UR) \in shape.hexes})
    + Cardinality({h \in shape.hexes :
                    /\ HexAdd(h, UP) \in shape.hexes
                    /\ HexAdd(h, UL) \in shape.hexes})

Max3(a, b, c) == Max2(a, Max2(b, c))

\* x[-1] - x[0] of the sorted list x of the numbers in S
Spread(S) == SetMax(S) - SetMin(S)

\* sorted(...)[0] of an empty shape raises IndexError
max_length(shape) ==
    IF shape.hexes = {} THEN IndexError
    ELSE Max3(Spread({h.q : h \in shape.hexes})
                + Spread({h.r : h \in shape.hexes}),
              Spread({h.q : h \in shape.hexes})
                + Spread({h.s : h \in shape.hexes}),
              Spread({h.r : h \in shape.hexes})
                + Spread({h.s : h \in shape.hexes}))

\* getattr(h, dim)
GetAttr(h, dim) == IF dim = "q" THEN h.q ELSE IF dim = "r" THEN h.r ELSE h.s

\* the numbers of S in ascending order
RECURSIVE SortedInts(_)
SortedInts(S) ==
    IF S = {} THEN <<>> ELSE <<SetMin(S)>> \o SortedInts(S \ {SetMin(S)})

\* the loop over one row from its i-th hex on; vals are the dim2 values of
\* the row in ascending order and lastv is vals[i - 1] (None when i = 1);
\* the value is curlen when the row ends
RECURSIVE RowLoop(_, _, _)
RowLoop(vals, i, curlen) ==
    IF i > Len(vals) THEN curlen
    ELSE IF i = 1 \/ vals[i] - vals[i - 1] = 1
         THEN RowLoop(vals, i + 1, curlen + 1)
         ELSE RowLoop(vals, i + 1, 1)

\* curlen at the end of the row of the hexes whose dim1 is d1val
RowLen(shape, dim1, dim2, d1val) ==
    RowLoop(SortedInts({GetAttr(h, dim2) :
                           h \in {g \in shape.hexes : GetAttr(g, dim1) = d1val}}),
            1, 0)

\* the largest curlen over the rows of one pair of dimensions
DimLen(shape, dim1, dim2) ==
    SetMax({0} \cup {RowLen(shape, dim1, dim2, GetAttr(h, dim1)) :
                        h \in shape.hexes})

\* max_line starts at 1 and is raised to curlen at the end of a row only
longest_line(shape) ==
    Max2(1, Max3(DimLen(shape, "q", "r"),
                 DimLen(shape, "r", "s"),
                 DimLen(shape, "s", "q")))

-----------------------------------------------------------------------------
(* The rules harness: a shape is drawn and one rule is applied to it.      *)

\* every set of the first RuleCells cells of the grid is a shape
RuleShapes == {Shape(hs) : hs \in SUBSET CellsUpTo(RuleCells)}

InitRules ==
    /\ gshape \in RuleShapes
    /\ gop = "new"
    /\ gnum = -1
    /\ gexts = <<>>
    /\ InitAllIdle
    /\ InitSelIdle
    /\ InitDescIdle
    /\ InitHexIdle
    /\ InitNormIdle
    /\ InitSet
    /\ InitDistIdle

\* gnum = num_triangles(gshape)
NumTrianglesCall ==
    /\ gop = "new"
    /\ gnum' = num_triangles(gshape)
    /\ gop' = "num_triangles"
    /\ UNCHANGED <<gshape, gexts, hexVars, normVars, setVars, distVars, allVars, selVars,
                   descVars>>

\* gnum = max_length(gshape), of a shape that has a hex
MaxLengthCall ==
    /\ gop = "new"
    /\ gshape.hexes # {}
    /\ gnum' = max_length(gshape)
    /\ gop' = "max_length"
    /\ UNCHANGED <<gshape, gexts, hexVars, normVars, setVars, distVars, allVars, selVars,
                   descVars>>

\* gnum = longest_line(gshape)
LongestLineCall ==
    /\ gop = "new"
    /\ gnum' = longest_line(gshape)
    /\ gop' = "longest_line"
    /\ UNCHANGED <<gshape, gexts, hexVars, normVars, setVars, distVars, allVars, selVars,
                   descVars>>

\* gexts = list(extensions(Shape.of(*gshape.hexes))), of a shape of at most
\* ExtCells cells
ExtensionsCall ==
    /\ gop = "new"
    /\ Cardinality(gshape.hexes) <= ExtCells
    /\ gexts' = extensions(ShapeOf(gshape.hexes))
    /\ gop' = "extensions"
    /\ UNCHANGED <<gshape, gnum, hexVars, normVars, setVars, distVars, allVars, selVars,
                   descVars>>

NextRules ==
    \/ NumTrianglesCall
    \/ MaxLengthCall
    \/ LongestLineCall
    \/ ExtensionsCall

SpecRules == InitRules /\ [][NextRules]_vars

\* the hexes next to a hex of the shape that are not in the shape
Neighbours(shape) ==
    {HexAdd(h, d) : h \in shape.hexes, d \in DirSet} \ shape.hexes

\* the sets of three hexes of the shape each next to the other two
TriangleTriples(shape) ==
    {t \in SUBSET shape.hexes :
        /\ Cardinality(t) = 3
        /\ \A a, b \in t : a # b => distance(a, b) = 1}

\* how many hexes of hs follow one another from h on in direction d
RECURSIVE RunFrom(_, _, _)
RunFrom(hs, h, d) == IF h \in hs THEN 1 + RunFrom(hs, HexAdd(h, d), d) ELSE 0

\* the longest run of hexes of the shape along a line of the grid
LongestRun(shape) ==
    SetMax({RunFrom(shape.hexes, h, d) : h \in shape.hexes, d \in {UP, UR, DR}})

\* C13: extensions(base) of a canonical shape base of N cells yields, each
\* exactly once, the canonical forms of the shapes base + {c}, c a hex next
\* to a hex of base and not in base, and nothing else; each has N + 1 cells,
\* and is a translated rotation of such a shape.  The empty shape yields
\* nothing and the shape of one cell yields one shape.
C13_ExtensionsOnce ==
    gop = "extensions" =>
        /\ SeqRange(gexts) =
              {normalize(Shape(ShapeOf(gshape.hexes).hexes \cup {c})) :
                  c \in Neighbours(ShapeOf(gshape.hexes))}
        /\ \A i, j \in 1..Len(gexts) : gexts[i] = gexts[j] => i = j
        /\ \A i \in 1..Len(gexts) :
              /\ ~IsError(gexts[i])
              /\ Cardinality(gexts[i].hexes) = Cardinality(gshape.hexes) + 1
              /\ \E c \in Neighbours(gshape) :
                    IsRotTrans(Shape(gshape.hexes \cup {c}), gexts[i])
        /\ gshape.hexes = {} => gexts = <<>>
        /\ Cardinality(gshape.hexes) = 1 => Len(gexts) = 1

\* extensions of a shape of ExtCells cells has yielded fewer shapes than the
\* shape has free neighbours: some candidates had the same canonical form
C13_Witness ==
    /\ gop = "extensions"
    /\ Cardinality(gshape.hexes) = ExtCells
    /\ Len(gexts) > 1
    /\ Len(gexts) < Cardinality(Neighbours(gshape))

\* extensions of the shape of one cell has yielded its one shape
C13_WitnessSingle ==
    /\ gop = "extensions"
    /\ gshape = Shape({OR})
    /\ Len(gexts) = 1

\* C14: num_triangles(shape) is the number of sets of three cells of the
\* shape each next to the other two; it is the same for every rotation and
\* translation of the shape, 1 for {OR, UP, UR} and 6 for the full ring of
\* 7 cells.
C14_TrianglesOnce ==
    gop = "num_triangles" =>
        /\ gnum = Cardinality(TriangleTriples(gshape))
        /\ \A k \in 0..5 : \A t \in Shifts :
              num_triangles(ShapeTranslate(ShapeRotate(gshape, k), t)) = gnum
        /\ gshape = Shape({OR, UP, UR}) => gnum = 1
        /\ gshape = Shape({OR} \cup DirSet) => gnum = 6

\* the triangles of the full ring of 7 cells have been counted
C14_Witness ==
    /\ gop = "num_triangles"
    /\ gshape = Shape({OR} \cup DirSet)
    /\ gnum = 6

\* the triangle of {OR, UP, UR} has been counted
C14_WitnessOne ==
    /\ gop = "num_triangles"
    /\ gshape = Shape({OR, UP, UR})
    /\ gnum = 1

\* C16: for every non-empty shape, longest_line(shape) is the largest number
\* of cells of the shape that follow one another along a line of the grid,
\* also when a line holds several runs with gaps between them, and is the
\* same for the rotations of the shape.
C16_LongestRun ==
    (gop = "longest_line" /\ gshape.hexes # {}) =>
        /\ gnum = LongestRun(gshape)
        /\ \A k \in 0..5 : longest_line(ShapeRotate(gshape, k)) = gnum

-----------------------------------------------------------------------------
(* generate_all *)

\* a filter that lets every extension through
AdmitsAny(ext) == TRUE

\* max_length(ext) <= 8 and longest_line(ext) < 5
Admits(ext) == max_length(ext) <= 8 /\ longest_line(ext) < 5

\* set([Shape.of(OR, UR)])
GenAllStart == {ShapeOf({OR, UR})}

\* generate_all is called with a size that passes `assert size >= 2`
InitGenAll ==
    /\ asize \in 2..MaxSize
    /\ ai = 0
    /\ ashapes = GenAllStart
    /\ atodo = GenAllStart
    /\ aexts = <<>>
    /\ anew = {}
    /\ aop = "loop"
    /\ InitRulesIdle
    /\ InitSelIdle
    /\ InitDescIdle
    /\ InitHexIdle
    /\ InitNormIdle
    /\ InitSet
    /\ InitDistIdle

\* the shape the loop over shapes reaches next: the set is iterated in some
\* order, and what the loop builds does not depend on it
NextShape(todo) == CHOOSE sh \in todo : TRUE

\* for shape in shapes: the next shape is reached, extensions(shape) starts
GenAllShape ==
    /\ aop = "loop"
    /\ ai < asize - 2
    /\ aexts = <<>>
    /\ atodo # {}
    /\ aexts' = extensions(NextShape(atodo))
    /\ atodo' = atodo \ {NextShape(atodo)}
    /\ UNCHANGED <<asize, ai, ashapes, anew, aop,
                   ruleVars, selVars, descVars, hexVars, normVars, setVars,
                   distVars>>

\* for ext in extensions(shape): ext is added to new if the filter admits it
GenAllExt ==
    /\ aop = "loop"
    /\ aexts # <<>>
    /\ anew' = IF Admits(Head(aexts)) THEN anew \cup {Head(aexts)} ELSE anew
    /\ aexts' = Tail(aexts)
    /\ UNCHANGED <<asize, ai, ashapes, atodo, aop,
                   ruleVars, selVars, descVars, hexVars, normVars, setVars,
                   distVars>>

\* the loop over shapes is over: shapes = new, and the next i
GenAllNext ==
    /\ aop = "loop"
    /\ ai < asize - 2
    /\ aexts = <<>>
    /\ atodo = {}
    /\ ashapes' = anew
    /\ atodo' = anew
    /\ anew' = {}
    /\ ai' = ai + 1
    /\ UNCHANGED <<asize, aexts, aop,
                   ruleVars, selVars, descVars, hexVars, normVars, setVars,
                   distVars>>

\* range(size - 2) is over: return shapes
GenAllReturn ==
    /\ aop = "loop"
    /\ ai = asize - 2
    /\ aop' = "returned"
    /\ UNCHANGED <<asize, ai, ashapes, atodo, aexts, anew,
                   ruleVars, selVars, descVars, hexVars, normVars, setVars,
                   distVars>>

NextGenAll ==
    \/ GenAllShape
    \/ GenAllExt
    \/ GenAllNext
    \/ GenAllReturn

SpecGenAll == InitGenAll /\ [][NextGenAll]_vars

\* the hexes of hs reached from the hexes of seen by steps between hexes
\* next to each other
ReachStep(hs, seen) ==
    seen \cup {h \in hs : \E g \in seen : distance(g, h) = 1}

RECURSIVE Reach(_, _)
Reach(hs, seen) ==
    IF ReachStep(hs, seen) = seen THEN seen ELSE Reach(hs, ReachStep(hs, seen))

\* a set of hexes is connected when every hex is reached from any one of them
Connected(hs) == hs # {} /\ \A h \in hs : Reach(hs, {h}) = hs

\* the hexes at most n steps from the origin
Disk(n) ==
    {h \in {HexUnchecked(q, r, -q - r) : q \in (-n)..n, r \in (-n)..n} :
        HexRingOf(h) <= n}

\* the subsets of S of k elements
RECURSIVE SubsetsOfSize(_, _)
SubsetsOfSize(S, k) ==
    IF k = 0 THEN {{}}
    ELSE UNION {{y \cup {e} : e \in S \ y} : y \in SubsetsOfSize(S, k - 1)}

\* the connected sets of n hexes whose lowest hex is the origin: every
\* connected set of n hexes is a translation of one of them
ConnectedSets(n) ==
    {hs \in {{OR} \cup rest :
                rest \in SubsetsOfSize({h \in Disk(n - 1) : HexLess(OR, h)},
                                       n - 1)} :
        Connected(hs)}

\* the canonical forms of the shapes of n cells grown one cell at a time
\* from the shape of two cells, with no filter
RECURSIVE Grown(_)
Grown(n) ==
    IF n <= 2 THEN GenAllStart
    ELSE UNION {SeqRange(extensions(sh)) : sh \in Grown(n - 1)}

\* a shape within both bounds, the run being counted cell by cell
Admissible(sh) == max_length(sh) <= 8 /\ LongestRun(sh) < 5

\* C12: generate_all(size) returns the canonical forms of the connected
\* shapes of size cells with max_length <= 8 and a longest run of fewer than
\* 5 cells: every shape returned is canonical, connected, has size cells and
\* is within both bounds, and the shapes returned are the admissible ones
\* among all the shapes grown with no filter at the sizes in between (for
\* the sizes up to BruteSize: among the canonical forms of all connected
\* sets of size cells).  For size 3 there are exactly 3 shapes.
C12_GenerateAllExact ==
    aop = "returned" =>
        /\ \A sh \in ashapes :
              /\ ~IsError(sh)
              /\ normalize(sh) = sh
              /\ Cardinality(sh.hexes) = asize
              /\ Connected(sh.hexes)
              /\ max_length(sh) <= 8
              /\ LongestRun(sh) < 5
        /\ ashapes = {sh \in Grown(asize) : Admissible(sh)}
        /\ asize <= BruteSize =>
              ashapes = {sh \in {ShapeOf(hs) : hs \in ConnectedSets(asize)} :
                            Admissible(sh)}
        /\ asize = 3 => Cardinality(ashapes) = 3

\* generate_all(MaxSize) has returned, and the filters have kept shapes out
\* at the last size and at a size before it
C12_Witness ==
    /\ aop = "returned"
    /\ asize = MaxSize
    /\ ashapes # {}
    /\ \E sh \in Grown(asize) : sh \notin ashapes
    /\ \E sh \in Grown(asize - 1) : ~Admissible(sh)

\* generate_all(3) has returned its 3 shapes
C12_WitnessThree ==
    /\ aop = "returned"
    /\ asize = 3
    /\ Cardinality(ashapes) = 3

-----------------------------------------------------------------------------
(* The selection loop of generate.  to_sources is an input of the loop: its
   shapes and their sources are names, <<numtri, i>> being the i-th shape
   with numtri triangles, and asymmetry() of a shape is a number given with
   it. *)

\* a table that gives the smaller quotas to the larger triangle counts
QuotasReversed ==
    <<<<4, 10>>, <<3, 14>>, <<2, 18>>, <<1, 24>>, <<0, 28>>>>

QUOTAS ==
    <<<<4, 28>>, <<3, 24>>, <<2, 18>>, <<1, 14>>, <<0, 10>>>>

\* the triangle counts of QUOTAS and the quota of one of them
QuotaNumTris == {QUOTAS[k][1] : k \in 1..Len(QUOTAS)}

QuotaOf(numtri) ==
    QUOTAS[CHOOSE k \in 1..Len(QUOTAS) : QUOTAS[k][1] = numtri][2]

\* how many shapes a triangle count has in to_sources: none (the key is
\* absent), ShortItems, or Spare more than its quota
ItemCount(fill, numtri) ==
    IF fill = "absent" THEN 0
    ELSE IF fill = "short" THEN ShortItems
    ELSE QuotaOf(numtri) + Spare

\* the sources of shape <<numtri, i>>: a source of its own; with "within",
\* the second shape of a count also has the source of the first; with
\* "across", the first shape of a count also has the source of the first
\* shape of the count above
SourcesOf(numtri, i, share) ==
    {<<numtri, i>>}
    \cup (IF share = "within" /\ i = 2 THEN {<<numtri, 1>>} ELSE {})
    \cup (IF share = "across" /\ i = 1 /\ numtri + 1 \in QuotaNumTris
          THEN {<<numtri + 1, 1>>} ELSE {})

\* asymmetry() of shape <<numtri, i>>: with "within", the two shapes of a
\* count that share a source tie
AsymOf(c, share) == IF share = "within" /\ c[2] <= 2 THEN 0 ELSE c[2]

ToSources(fills, share) ==
    [numtri \in {t \in QuotaNumTris : fills[t] # "absent"} |->
        [c \in {<<numtri, i>> : i \in 1..ItemCount(fills[numtri], numtri)} |->
            SourcesOf(numtri, c[2], share)]]

InitSel ==
    /\ \E fills \in [QuotaNumTris -> {"absent", "short", "ample"}] :
       \E share \in {"none", "within", "across"} :
          /\ qsrc = ToSources(fills, share)
          /\ qasym = [c \in UNION {DOMAIN qsrc[t] : t \in DOMAIN qsrc} |->
                         AsymOf(c, share)]
    /\ qseen = {}
    /\ qshapes = <<>>
    /\ qb = 1
    /\ qrest = {}
    /\ qcount = 0
    /\ qorder = <<>>
    /\ qlog = <<>>
    /\ qop = "bucket"
    /\ InitRulesIdle
    /\ InitAllIdle
    /\ InitDescIdle
    /\ InitHexIdle
    /\ InitNormIdle
    /\ InitSet
    /\ InitDistIdle

\* an intersection that is always empty
IntersectsNever(sources, seen) == FALSE

\* sources.intersection(sources_seen) is not empty
Intersects(sources, seen) == sources \cap seen # {}

\* a test that lets one more shape in
QuotaMetLate(count, quota) == count > quota

\* count >= quota
QuotaMet(count, quota) == count >= quota

\* to_sources.get(numtri, {}): the shapes of the entries
Items(numtri) == IF numtri \in DOMAIN qsrc THEN DOMAIN qsrc[numtri] ELSE {}

\* for numtri, quota in QUOTAS: the list is made, shuffled and sorted, and
\* count = 0
SelBucket ==
    /\ qop = "bucket"
    /\ qb <= Len(QUOTAS)
    /\ qrest' = Items(QUOTAS[qb][1])
    /\ qcount' = 0
    /\ qorder' = <<>>
    /\ qop' = "scan"
    /\ UNCHANGED <<qsrc, qasym, qseen, qshapes, qb, qlog,
                   ruleVars, allVars, descVars, hexVars, normVars, setVars,
                   distVars>>

\* one pass of the inner loop for the shape c, whose sources are srcs: c is
\* appended unless its sources meet sources_seen; then the quota is tested
SelPass(c, srcs, numtri, quota) ==
    /\ qorder' = Append(qorder, c)
    /\ qrest' = qrest \ {c}
    /\ qshapes' = IF Intersects(srcs, qseen) THEN qshapes
                  ELSE Append(qshapes, c)
    /\ qseen' = IF Intersects(srcs, qseen) THEN qseen ELSE qseen \cup srcs
    /\ qcount' = IF Intersects(srcs, qseen) THEN qcount ELSE qcount + 1
    /\ IF QuotaMet(qcount', quota)
       THEN /\ qlog' = Append(qlog, [text |-> "Found", n |-> qcount',
                                     numtri |-> numtri])
            /\ qb' = qb + 1          \* break
            /\ qop' = "bucket"
       ELSE /\ qlog' = qlog
            /\ qb' = qb
            /\ qop' = "scan"

\* for shape, sources in shapes_sources: the list was shuffled and then
\* sorted by asymmetry, so the next shape is any one of the least asymmetry
\* among those not reached yet
SelScan ==
    /\ qop = "scan"
    /\ \E c \in qrest :
          /\ \A o \in qrest : qasym[c] <= qasym[o]
          /\ SelPass(c, qsrc[QUOTAS[qb][1]][c], QUOTAS[qb][1], QUOTAS[qb][2])
    /\ UNCHANGED <<qsrc, qasym,
                   ruleVars, allVars, descVars, hexVars, normVars, setVars,
                   distVars>>

\* the inner loop ends with no break: the else of the for
SelExhausted ==
    /\ qop = "scan"
    /\ qrest = {}
    /\ qlog' = Append(qlog, [text |-> "Unable", n |-> QUOTAS[qb][2],
                             numtri |-> QUOTAS[qb][1]])
    /\ qb' = qb + 1
    /\ qop' = "bucket"
    /\ UNCHANGED <<qsrc, qasym, qseen, qshapes, qrest, qcount, qorder,
                   ruleVars, allVars, descVars, hexVars, normVars, setVars,
                   distVars>>

\* QUOTAS is over: return shapes
SelReturn ==
    /\ qop = "bucket"
    /\ qb > Len(QUOTAS)
    /\ qop' = "returned"
    /\ UNCHANGED <<qsrc, qasym, qseen, qshapes, qb, qrest, qcount, qorder,
                   qlog, ruleVars, allVars, descVars, hexVars, normVars,
                   setVars, distVars>>

NextSel ==
    \/ SelBucket
    \/ SelScan
    \/ SelExhausted
    \/ SelReturn

SpecSelect == InitSel /\ [][NextSel]_vars

\* the sources of a shape of to_sources
SourcesIn(c) == qsrc[c[1]][c]

\* the shapes of the list with numtri triangles
Accepted(numtri) == {c \in SeqRange(qshapes) : c[1] = numtri}

\* C15 as stated: the bucket of the larger triangle count has the smaller
\* quota, in QUOTAS and in the counts at which the buckets were closed.
C15_QuotasStricter ==
    /\ \A j, k \in 1..Len(QUOTAS) :
          QUOTAS[j][1] < QUOTAS[k][1] => QUOTAS[k][2] < QUOTAS[j][2]
    /\ \A i, j \in 1..Len(qlog) :
          (/\ qlog[i].text = "Found"
           /\ qlog[j].text = "Found"
           /\ qlog[i].numtri < qlog[j].numtri) => qlog[j].n < qlog[i].n

\* C15: the bucket of the larger triangle count has the larger quota: for
\* two buckets with triangle counts t1 < t2, quota(t1) < quota(t2), in
\* QUOTAS and in the counts at which the selection closed the buckets it
\* filled.
C15_QuotasGrow ==
    /\ \A j, k \in 1..Len(QUOTAS) :
          QUOTAS[j][1] < QUOTAS[k][1] => QUOTAS[j][2] < QUOTAS[k][2]
    /\ \A i, j \in 1..Len(qlog) :
          (/\ qlog[i].text = "Found"
           /\ qlog[j].text = "Found"
           /\ qlog[i].numtri < qlog[j].numtri) => qlog[i].n < qlog[j].n

\* the selection has returned with 28 shapes of 4 triangles and 10 shapes of
\* no triangle, both buckets filled
C15_Witness ==
    /\ qop = "returned"
    /\ Cardinality(Accepted(4)) = 28
    /\ Cardinality(Accepted(0)) = 10
    /\ \E i, j \in 1..Len(qlog) :
          /\ qlog[i] = [text |-> "Found", n |-> 28, numtri |-> 4]
          /\ qlog[j] = [text |-> "Found", n |-> 10, numtri |-> 0]

\* C17: at every point of the selection sources_seen is the union of the
\* source sets of the shapes in the list, no shape is in the list twice, the
\* source sets of any two shapes of the list are disjoint, whatever their
\* triangle counts: a shape is in the list only if its sources are disjoint
\* from those of the shapes listed before it.
C17_SourcesDisjoint ==
    /\ qseen = UNION {SourcesIn(qshapes[i]) : i \in 1..Len(qshapes)}
    /\ \A i, j \in 1..Len(qshapes) :
          i < j => /\ qshapes[i] # qshapes[j]
                   /\ SourcesIn(qshapes[i]) \cap SourcesIn(qshapes[j]) = {}

\* the selection has returned; a shape of 3 triangles was left out because
\* it shares a source with a listed shape of 4 triangles
C17_Witness ==
    /\ qop = "returned"
    /\ <<4, 1>> \in SeqRange(qshapes)
    /\ \E c \in Items(3) :
          /\ c \notin SeqRange(qshapes)
          /\ SourcesIn(c) \cap SourcesIn(<<4, 1>>) # {}
    /\ Accepted(3) # {}

\* the selection has returned; of two shapes of one bucket that share a
\* source one is in the list and the other is not
C17_WitnessWithin ==
    /\ qop = "returned"
    /\ \E c \in SeqRange(qshapes) : \E o \in Items(c[1]) :
          /\ o \notin SeqRange(qshapes)
          /\ SourcesIn(c) \cap SourcesIn(o) # {}

\* the bucket the loop over QUOTAS has just closed (qb was raised past it)
Closed == qb - 1

\* C18: in every bucket the shapes are reached in ascending asymmetry order
\* and at most quota shapes of its triangle count are listed; the inner loop
\* goes on only while the count is below the quota, and a bucket closed with
\* "Found" was closed by the pass that listed its quota-th shape.  A bucket
\* closed with "Unable" had every shape reached and fewer than quota listed,
\* and each of its shapes is in the list or shares a source with a listed
\* shape.  One line is printed a bucket, in the order of QUOTAS, and at the
\* return every bucket has its line, whatever the buckets before it found.
C18_QuotaScan ==
    /\ \A i, j \in 1..Len(qorder) :
          i < j => qasym[qorder[i]] <= qasym[qorder[j]]
    /\ \A k \in 1..Len(QUOTAS) :
          Cardinality(Accepted(QUOTAS[k][1])) <= QUOTAS[k][2]
    /\ qop = "scan" =>
          /\ qcount < QUOTAS[qb][2]
          /\ Len(qlog) = qb - 1
          /\ qcount = Cardinality(Accepted(QUOTAS[qb][1]))
    /\ (qop \in {"bucket", "returned"} /\ qb > 1) =>
          /\ Len(qlog) = Closed
          /\ qlog[Closed].numtri = QUOTAS[Closed][1]
          /\ qlog[Closed].text = "Found" =>
                /\ qcount = QUOTAS[Closed][2]
                /\ qlog[Closed].n = qcount
                /\ qorder # <<>>
                /\ qshapes # <<>>
                /\ qshapes[Len(qshapes)] = qorder[Len(qorder)]
          /\ qlog[Closed].text = "Unable" =>
                /\ qcount < QUOTAS[Closed][2]
                /\ qlog[Closed].n = QUOTAS[Closed][2]
                /\ qrest = {}
                /\ SeqRange(qorder) = Items(QUOTAS[Closed][1])
    /\ \A k \in 1..Len(qlog) :
          /\ qlog[k].numtri = QUOTAS[k][1]
          /\ qlog[k].text = "Found" =>
                Cardinality(Accepted(qlog[k].numtri)) = QUOTAS[k][2]
          /\ qlog[k].text = "Unable" =>
                /\ Cardinality(Accepted(qlog[k].numtri)) < QUOTAS[k][2]
                /\ \A c \in Items(qlog[k].numtri) :
                      \/ c \in SeqRange(qshapes)
                      \/ \E i \in 1..Len(qshapes) :
                            SourcesIn(c) \cap SourcesIn(qshapes[i]) # {}
    /\ qop = "returned" => Len(qlog) = Len(QUOTAS)

\* the selection has returned: the first bucket was short of its quota and
\* its shapes are in the list; a later bucket was filled with a shape of it
\* never reached, and another was filled by its last shape
C18_Witness ==
    /\ qop = "returned"
    /\ qlog[1].text = "Unable"
    /\ Accepted(QUOTAS[1][1]) # {}
    /\ \E k \in 2..Len(qlog) :
          /\ qlog[k].text = "Found"
          /\ \E c \in Items(qlog[k].numtri) :
                /\ c \notin SeqRange(qshapes)
                /\ \A i \in 1..Len(qshapes) :
                      SourcesIn(c) \cap SourcesIn(qshapes[i]) = {}
    /\ qlog[Len(qlog)].text = "Found"
    /\ qrest = {}

\* C19: when two shapes of the same size share all their cells but one each,
\* d1 = C + {a} and d2 = C + {b}, shape_distance(d1, d2) is the squared
\* distance of a and b, the shared cells being paired with themselves: 1 for
\* {UP, OR, DN} and {UL, OR, DN}, 4 for {UR, OR, DN} and {UL, OR, DN}.
C19_NearestPaired ==
    dop = "shape_distance" =>
        /\ \A a \in d1.hexes \ d2.hexes : \A b \in d2.hexes \ d1.hexes :
              d1.hexes \ {a} = d2.hexes \ {b} =>
                  dres = distance(a, b) * distance(a, b)
        /\ (d1 = Shape({UP, OR, DN}) /\ d2 = Shape({UL, OR, DN})) => dres = 1
        /\ (d1 = Shape({UR, OR, DN}) /\ d2 = Shape({UL, OR, DN})) => dres = 4

\* the rotations left when the while loop of normalize is over, by break or
\* by the end of the rings
RECURSIVE Survivors(_, _, _)
RECURSIVE SurvivorsBreak(_, _, _)
Survivors(rotations, ring, outer_ring) ==
    IF ring > outer_ring THEN rotations
    ELSE SurvivorsBreak(KeptRotations(RingSums(rotations, ring)), ring,
                        outer_ring)

SurvivorsBreak(rotations, ring, outer_ring) ==
    IF Len(rotations) = 1 THEN rotations
    ELSE Survivors(rotations, ring + 1, outer_ring)

\* the shape scaled up by its number of cells, and that shape centred
ScaledUp(sh) == scale_up(sh, Cardinality(sh.hexes))

Centred(sh) == ShapeTranslate(ScaledUp(sh), HexNeg(mean(ScaledUp(sh))))

\* the rotations of the centred shape that the loop leaves
LeftRotations(sh) ==
    Survivors([i \in 1..6 |-> ShapeRotate(Centred(sh), i - 1)], 1,
              SetMax({HexRingOf(h) : h \in Centred(sh).hexes}))

\* C20: normalize of a non-empty set of hexes, connected or not, raises
\* nothing: the mean of the shape scaled by its number N of cells is an exact
\* division (N times the mean is the sum of the cells), the rotations left
\* by the ring loop are all the same shape, and every coordinate of the
\* rotation kept, moved to its lowest hex, is a multiple of N, so that the
\* scale-down is exact.
C20_NormalizeCompletes ==
    (nop = "normalize" /\ arg.hexes # {}) =>
        /\ ~IsError(out)
        /\ ~IsError(mean(ScaledUp(arg)))
        /\ HexMul(mean(ScaledUp(arg)), Cardinality(arg.hexes))
              = ShapeSum(ScaledUp(arg))
        /\ \A left \in {LeftRotations(arg)} :
              /\ \A i \in 1..Len(left) : left[i] = left[1]
              /\ \A low \in {LowestHex(left[1].hexes)} :
                    \A h \in left[1].hexes :
                        /\ (h.q - low.q) % Cardinality(arg.hexes) = 0
                        /\ (h.r - low.r) % Cardinality(arg.hexes) = 0
                        /\ (h.s - low.s) % Cardinality(arg.hexes) = 0

\* a shape of cells that do not touch has been normalized, and the ring loop
\* left more than one rotation of it
C20_Witness ==
    /\ nop = "normalize"
    /\ Cardinality(arg.hexes) > 1
    /\ ~Connected(arg.hexes)
    /\ Len(LeftRotations(arg)) > 1
    /\ ~IsError(out)

\* a shape of MaxCells cells has been normalized, and the ring loop left one
\* rotation of it before the outermost ring
C20_WitnessBreak ==
    /\ nop = "normalize"
    /\ Cardinality(arg.hexes) = MaxCells
    /\ Len(LeftRotations(arg)) = 1
    /\ ~IsError(out)

\* the shape holds the origin and its other cells come after the origin in
\* the (q, r, s) ordering
OriginLowest(sh) ==
    /\ OR \in sh.hexes
    /\ \A h \in sh.hexes \ {OR} : HexLess(OR, h)

\* C21: the canonical form of every non-empty shape holds the origin, its
\* other cells come after the origin in (q, r, s) order, and in
\* ShapeSet.add the line `assert s.hexes[0] == node.value` raises nothing
\* for it: the call goes past the assertion.
C21_RootIsOrigin ==
    (nadds > 0 /\ added.hexes # {}) =>
        /\ OriginLowest(normalize(added))
        /\ ret \notin {AssertionError.raised, TypeError.raised}

-----------------------------------------------------------------------------
(* min_shape_distance call by call: one step for every call of the function,
   the first and the recursive ones. *)

\* what sys.getrecursionlimit() is when nothing has set it
RecursionLimit == 1000

\* a call of a function under lru_cache takes two frames, the wrapper's and
\* the function's
FramesPerCall == 2

\* the frames in use where the first call is made
CallerFrames == 1

\* the frames in use inside the calls-th nested call of min_shape_distance
FramesAt(calls) == CallerFrames + FramesPerCall * calls

\* the next call of min_shape_distance, and the call of shape_distance it
\* makes, do not fit under the recursion limit (the frames of what
\* shape_distance calls in turn are left out of the count)
Overflows(calls) == FramesAt(calls + 1) + FramesPerCall > RecursionLimit

RecursionError == [raised |-> "RecursionError"]

\* min_dist and min_trans after the loop over DIRS, for the call in progress
DescentBest(s1, s2) == DirLoop(1, shape_distance(s1, s2), s1, s1, s2)

\* s2 is a small shape near the origin or, for an s1 that holds the origin,
\* s1 moved FarShift cells up-right
InitDescent ==
    /\ morig \in ShapesOf(CellsUpTo(DistCells))
    /\ m1 = morig
    /\ m2 \in {scale_up(x, k) :
                  x \in {y \in Shapes : y.hexes = {} \/ OR \in y.hexes},
                  k \in 1..MaxScale}
              \cup {ShapeTranslate(x, HexMul(UR, FarShift)) :
                        x \in {y \in {morig} : OR \in y.hexes}}
    /\ Cardinality(m1.hexes) = Cardinality(m2.hexes)
    /\ mprev = -1
    /\ mcalls = 0
    /\ mres = -1
    /\ mop = "call"
    /\ InitRulesIdle
    /\ InitAllIdle
    /\ InitSelIdle
    /\ InitHexIdle
    /\ InitNormIdle
    /\ InitSet
    /\ InitDistIdle

\* min_trans != s1: return min_shape_distance(min_trans, s2)
DescentRecurse ==
    /\ mop = "call"
    /\ ~Overflows(mcalls)
    /\ \E best \in {DescentBest(m1, m2)} :
          /\ best[2] # m1
          /\ m1' = best[2]
    /\ mprev' = shape_distance(m1, m2)
    /\ mcalls' = mcalls + 1
    /\ UNCHANGED <<morig, m2, mres, mop, ruleVars, allVars, selVars,
                   hexVars, normVars, setVars, distVars>>

\* min_trans is s1: return min_dist, through every call in progress
DescentReturn ==
    /\ mop = "call"
    /\ ~Overflows(mcalls)
    /\ \E best \in {DescentBest(m1, m2)} :
          /\ best[2] = m1
          /\ mres' = best[1]
    /\ mop' = "returned"
    /\ mcalls' = 0
    /\ UNCHANGED <<morig, m1, m2, mprev, ruleVars, allVars, selVars,
                   hexVars, normVars, setVars, distVars>>

\* the call does not fit under the recursion limit: RecursionError is
\* raised and leaves every call in progress
DescentOverflow ==
    /\ mop = "call"
    /\ Overflows(mcalls)
    /\ mop' = RecursionError.raised
    /\ mcalls' = 0
    /\ UNCHANGED <<morig, m1, m2, mprev, mres, ruleVars, allVars, selVars,
                   hexVars, normVars, setVars, distVars>>

NextDescent ==
    \/ DescentRecurse
    \/ DescentReturn
    \/ DescentOverflow

SpecDescent == InitDescent /\ [][NextDescent]_vars

\* C22: min_shape_distance(s1, s2) of shapes of the same size comes to an
\* end by returning a value: every recursive call is made on a translate of
\* s1 whose shape_distance to s2 is strictly smaller than that of the call
\* before, no call raises, and the value returned is the shape_distance of
\* a translate of s1 that none of the 6 unit translations improves; it is
\* never greater than shape_distance(s1, s2).
C22_DescentReturns ==
    /\ (mop = "call" /\ mcalls > 0) =>
          /\ IsTranslate(morig, m1)
          /\ shape_distance(m1, m2) < mprev
    /\ mop # RecursionError.raised
    /\ mop = "returned" =>
          /\ IsTranslate(morig, m1)
          /\ mres = shape_distance(m1, m2)
          /\ \A d \in DirSet :
                shape_distance(ShapeTranslate(m1, d), m2) >= mres
          /\ mres <= shape_distance(morig, m2)

=============================================================================
